---------------------------- MODULE Spec2Model ----------------------------
(***************************************************************************)
(* Model of Aula_01/app.py: a Streamlit script that loads a CSV of         *)
(* timestamped pickups (load_data), filters it by date range, hour and     *)
(* base, and renders hourly counts, the ten densest lat/lon buckets, a map *)
(* and a CSV export.  One run of the script is one behaviour: the source   *)
(* and the widget values are the inputs, every block of the script is an   *)
(* action.                                                                 *)
(*                                                                         *)
(* Text is a sequence of one-character strings.  A cell of a table is a    *)
(* record [k, n, s]: k the kind, n the number, s the text.  Floats are     *)
(* fixed-point integers in units of 1/Scale; timestamps are seconds since  *)
(* 1970-01-01 00:00:00; dates are days since 1970-01-01.                   *)
(***************************************************************************)
EXTENDS Integers, Sequences, FiniteSets, TLC

VARIABLES
    source,        \* the CSV behind the URL: [status, cols, rows], all cells text
    max_rows,      \* the sidebar's "Amostra (nrows)"
    pc,            \* the block of the script that runs next
    df,            \* the table load_data returned
    error,         \* what st.error showed
    min_date,      \* date window of df
    max_date,
    chosen_dates,  \* the "Período" widget: a tuple of 0, 1 or 2 dates
    hours,         \* the "Horas" multiselect
    base_sel,      \* the "Bases" multiselect
    filtered,      \* the filtered view
    hour_counts,   \* rows (hour, pickups)
    quantized,     \* rows (lat_q, lon_q, size)
    midpoint,      \* centre of the map view
    layers,        \* data of the pydeck layers
    kpis,          \* the four KPI cards
    table,         \* the data table shown
    csv,           \* lines of the download, each a sequence of fields
    rendered       \* the elements the run has put on the page

vars == <<source, max_rows, pc, df, error, min_date, max_date, chosen_dates,
          hours, base_sel, filtered, kpis, hour_counts, quantized, midpoint,
          layers, table, csv, rendered>>

-----------------------------------------------------------------------------
(* Text *)

UpperChars == <<"A","B","C","D","E","F","G","H","I","J","K","L","M",
                "N","O","P","Q","R","S","T","U","V","W","X","Y","Z">>
LowerChars == <<"a","b","c","d","e","f","g","h","i","j","k","l","m",
                "n","o","p","q","r","s","t","u","v","w","x","y","z">>
Digits == <<"0","1","2","3","4","5","6","7","8","9">>
Whitespace == {" ", "\t", "\n", "\r"}

IndexOf(seq, x) ==
    IF \E i \in 1..Len(seq) : seq[i] = x
    THEN CHOOSE i \in 1..Len(seq) : seq[i] = x /\ \A j \in 1..(i-1) : seq[j] # x
    ELSE 0

LowerChar(c) == LET i == IndexOf(UpperChars, c) IN IF i > 0 THEN LowerChars[i] ELSE c
UpperChar(c) == LET i == IndexOf(LowerChars, c) IN IF i > 0 THEN UpperChars[i] ELSE c

\* str.lower, str.upper, str.strip
StrLower(s) == [i \in 1..Len(s) |-> LowerChar(s[i])]
StrUpper(s) == [i \in 1..Len(s) |-> UpperChar(s[i])]
StrStrip(s) ==
    LET keep == {i \in 1..Len(s) : s[i] \notin Whitespace}
    IN IF keep = {} THEN <<>>
       ELSE LET a == CHOOSE i \in keep : \A j \in keep : i <= j
                b == CHOOSE i \in keep : \A j \in keep : j <= i
            IN SubSeq(s, a, b)

IsDigit(c) == IndexOf(Digits, c) > 0
AllDigits(s) == Len(s) > 0 /\ \A i \in 1..Len(s) : IsDigit(s[i])

RECURSIVE ParseNat(_)
ParseNat(s) ==
    IF s = <<>> THEN 0
    ELSE 10 * ParseNat(SubSeq(s, 1, Len(s) - 1)) + (IndexOf(Digits, s[Len(s)]) - 1)

RECURSIVE FormatNat(_)
FormatNat(n) ==
    IF n < 10 THEN <<Digits[n + 1]>> ELSE FormatNat(n \div 10) \o <<Digits[(n % 10) + 1]>>

\* n written with at least w digits
RECURSIVE ZeroPad(_, _)
ZeroPad(s, w) == IF Len(s) >= w THEN s ELSE ZeroPad(<<"0">> \o s, w)

-----------------------------------------------------------------------------
(* Cells *)

Num(n)  == [k |-> "num",  n |-> n, s |-> <<>>]   \* a float, n/Scale
Inf(sg) == [k |-> "inf",  n |-> sg, s |-> <<>>]  \* +inf or -inf
NaN     == [k |-> "nan",  n |-> 0, s |-> <<>>]   \* missing value
Str(s)  == [k |-> "str",  n |-> 0, s |-> s]
IntC(n) == [k |-> "int",  n |-> n, s |-> <<>>]   \* an int64
Ts(n)   == [k |-> "ts",   n |-> n, s |-> <<>>]   \* datetime64, seconds
NaT     == [k |-> "nat",  n |-> 0, s |-> <<>>]
Date(d) == [k |-> "date", n |-> d, s |-> <<>>]   \* datetime.date, days

\* pandas isna
IsNA(c) == c.k \in {"nan", "nat"}

\* Fixed point: four decimal digits, the precision of the dataset's lat/lon.
Scale == 10 * 10 * 10 * 10
ZerosOfScale == <<"0", "0", "0", "0">>

-----------------------------------------------------------------------------
(* Numbers as text: what read_csv and to_numeric parse, what to_csv writes *)

InfWords == {<<"i","n","f">>, <<"i","n","f","i","n","i","t","y">>}

Unsigned(s) == IF s # <<>> /\ s[1] \in {"-", "+"} THEN Tail(s) ELSE s
SignOf(s) == IF s # <<>> /\ s[1] = "-" THEN -1 ELSE 1
IntPart(b) == LET p == IndexOf(b, ".") IN IF p = 0 THEN b ELSE SubSeq(b, 1, p - 1)
FracPart(b) == LET p == IndexOf(b, ".") IN IF p = 0 THEN <<>> ELSE SubSeq(b, p + 1, Len(b))

IsFiniteText(s) ==
    LET b == Unsigned(s)
    IN AllDigits(IntPart(b)) /\ (FracPart(b) = <<>> \/ AllDigits(FracPart(b)))
IsInfText(s) == StrLower(Unsigned(s)) \in InfWords
IsFloatText(s) == IsFiniteText(s) \/ IsInfText(s)

\* The float a numeric text denotes (digits beyond the fixed point are cut).
ParseFloat(s) ==
    IF IsInfText(s) THEN Inf(SignOf(s))
    ELSE LET b == Unsigned(s)
             frac == SubSeq(FracPart(b) \o ZerosOfScale, 1, Len(ZerosOfScale))
         IN Num(SignOf(s) * (ParseNat(IntPart(b)) * Scale + ParseNat(frac)))

RECURSIVE TrimZeros(_)
TrimZeros(s) ==
    IF Len(s) > 1 /\ s[Len(s)] = "0" THEN TrimZeros(SubSeq(s, 1, Len(s) - 1)) ELSE s

\* repr of a float: "40.7521", "-73.99", "40.0", "inf"
FormatFloat(c) ==
    IF c.k = "inf" THEN (IF c.n < 0 THEN <<"-">> ELSE <<>>) \o <<"i","n","f">>
    ELSE LET a == IF c.n < 0 THEN -c.n ELSE c.n
         IN (IF c.n < 0 THEN <<"-">> ELSE <<>>)
            \o FormatNat(a \div Scale) \o <<".">>
            \o TrimZeros(ZeroPad(FormatNat(a % Scale), Len(ZerosOfScale)))

\* numpy round(x, 3): to the nearest multiple of Scale/1000, halves to even
Round3(c) ==
    IF c.k # "num" THEN c
    ELSE LET u == Scale \div (10 * 10 * 10)
             q == c.n \div u
             r == c.n % u
         IN Num(u * (IF 2 * r < u THEN q
                     ELSE IF 2 * r > u THEN q + 1
                     ELSE IF q % 2 = 0 THEN q ELSE q + 1))

-----------------------------------------------------------------------------
(* Calendar: what to_datetime parses and the .dt accessors return *)

IsLeap(y) == (y % 4 = 0 /\ y % 100 # 0) \/ y % 400 = 0
DaysInMonth(y, m) ==
    IF m = 2 THEN (IF IsLeap(y) THEN 29 ELSE 28)
    ELSE IF m \in {4, 6, 9, 11} THEN 30 ELSE 31

\* days since 1970-01-01 of a civil date
DaysFromCivil(y, m, d) ==
    LET yy  == IF m <= 2 THEN y - 1 ELSE y
        era == yy \div 400
        yoe == yy - era * 400
        mp  == IF m > 2 THEN m - 3 ELSE m + 9
        doy == (153 * mp + 2) \div 5 + d - 1
        doe == yoe * 365 + yoe \div 4 - yoe \div 100 + doy
    IN era * 146097 + doe - 719468

\* <<year, month, day>> of a day number
CivilFromDays(z) ==
    LET zz  == z + 719468
        era == zz \div 146097
        doe == zz - era * 146097
        yoe == (doe - doe \div 1460 + doe \div 36524 - doe \div 146096) \div 365
        doy == doe - (365 * yoe + yoe \div 4 - yoe \div 100)
        mp  == (5 * doy + 2) \div 153
        d   == doy - (153 * mp + 2) \div 5 + 1
        m   == IF mp < 10 THEN mp + 3 ELSE mp - 9
        y   == yoe + era * 400 + (IF m <= 2 THEN 1 ELSE 0)
    IN <<y, m, d>>

SecondsPerDay == 24 * 60 * 60

\* "YYYY-MM-DD HH:MM:SS" -> Ts, anything else -> NaT (errors="coerce")
ParseTs(s) ==
    IF /\ Len(s) = 19
       /\ s[5] = "-" /\ s[8] = "-" /\ s[11] = " " /\ s[14] = ":" /\ s[17] = ":"
       /\ \A i \in (1..19) \ {5, 8, 11, 14, 17} : IsDigit(s[i])
    THEN LET y  == ParseNat(SubSeq(s, 1, 4))
             m  == ParseNat(SubSeq(s, 6, 7))
             d  == ParseNat(SubSeq(s, 9, 10))
             hh == ParseNat(SubSeq(s, 12, 13))
             mm == ParseNat(SubSeq(s, 15, 16))
             ss == ParseNat(SubSeq(s, 18, 19))
         IN IF /\ m \in 1..12 /\ d >= 1 /\ d <= DaysInMonth(y, m)
               /\ hh <= 23 /\ mm <= 59 /\ ss <= 59
            THEN Ts(DaysFromCivil(y, m, d) * SecondsPerDay + hh * 3600 + mm * 60 + ss)
            ELSE NaT
    ELSE NaT

\* .dt.date, .dt.hour, .dt.day_name()
DayNames == << <<"M","o","n","d","a","y">>, <<"T","u","e","s","d","a","y">>,
              <<"W","e","d","n","e","s","d","a","y">>, <<"T","h","u","r","s","d","a","y">>,
              <<"F","r","i","d","a","y">>, <<"S","a","t","u","r","d","a","y">>,
              <<"S","u","n","d","a","y">> >>
DateOf(c) == Date(c.n \div SecondsPerDay)
HourOf(c) == IntC((c.n % SecondsPerDay) \div 3600)
DayNameOf(c) == Str(DayNames[((c.n \div SecondsPerDay + 3) % 7) + 1])

\* str(date): "2014-09-01"
FormatDate(d) ==
    LET ymd == CivilFromDays(d)
    IN ZeroPad(FormatNat(ymd[1]), 4) \o <<"-">> \o ZeroPad(FormatNat(ymd[2]), 2)
       \o <<"-">> \o ZeroPad(FormatNat(ymd[3]), 2)
\* str(Timestamp): "2014-09-01 00:02:00"
FormatTs(n) ==
    LET r == n % SecondsPerDay
    IN FormatDate(n \div SecondsPerDay) \o <<" ">> \o ZeroPad(FormatNat(r \div 3600), 2)
       \o <<":">> \o ZeroPad(FormatNat((r % 3600) \div 60), 2)
       \o <<":">> \o ZeroPad(FormatNat(r % 60), 2)

-----------------------------------------------------------------------------
(* Tables: [cols, index, rows], rows[i][j] the cell of row i in column cols[j] *)

Min(a, b) == IF a <= b THEN a ELSE b

DATE_COL_RAW == <<"d","a","t","e","/","t","i","m","e">>
LAT_COL == <<"l","a","t">>
LON_COL == <<"l","o","n">>
BASE_COL == <<"b","a","s","e">>
DATETIME == <<"d","a","t","e","t","i","m","e">>
DATE == <<"d","a","t","e">>
HOUR == <<"h","o","u","r">>
WEEKDAY == <<"w","e","e","k","d","a","y">>
UNKNOWN == <<"U","N","K","N","O","W","N">>

EmptyTable == [cols |-> <<>>, index |-> <<>>, rows |-> <<>>]

HasCol(t, name) == IndexOf(t.cols, name) > 0
Cell(t, row, name) == row[IndexOf(t.cols, name)]

\* df[name] = values: replaces the column, or appends it
Assign(t, name, values) ==
    LET j == IndexOf(t.cols, name)
    IN IF j > 0
       THEN [t EXCEPT !.rows = [i \in 1..Len(t.rows) |-> [t.rows[i] EXCEPT ![j] = values[i]]]]
       ELSE [t EXCEPT !.cols = Append(t.cols, name),
                      !.rows = [i \in 1..Len(t.rows) |-> Append(t.rows[i], values[i])]]

\* df[name].map(f) is written [i \in Rows(t) |-> f(Cell(t, t.rows[i], name))]
Rows(t) == 1..Len(t.rows)

\* df[mask]: the rows at the positions in keep, labels kept
RECURSIVE Positions(_, _, _)
Positions(keep, i, n) ==
    IF i > n THEN <<>>
    ELSE (IF i \in keep THEN <<i>> ELSE <<>>) \o Positions(keep, i + 1, n)

Take(t, keep) ==
    LET ps == Positions(keep, 1, Len(t.rows))
    IN [t EXCEPT !.index = [i \in 1..Len(ps) |-> t.index[ps[i]]],
                 !.rows  = [i \in 1..Len(ps) |-> t.rows[ps[i]]]]

\* df.dropna(subset=names)
DropNA(t, names) ==
    Take(t, {i \in 1..Len(t.rows) : \A nm \in names : ~IsNA(Cell(t, t.rows[i], nm))})

\* df.reset_index(drop=True)
ResetIndex(t) == [t EXCEPT !.index = [i \in 1..Len(t.rows) |-> i - 1]]

\* df.rename(columns={old: new})
Rename(t, old, new) ==
    [t EXCEPT !.cols = [j \in 1..Len(t.cols) |-> IF t.cols[j] = old THEN new ELSE t.cols[j]]]

-----------------------------------------------------------------------------
(* pandas conversions *)

\* The texts read_csv takes for a missing value (some of its defaults).
NAValues == {<<>>, <<"N","A">>, <<"N","a","N">>, <<"n","a","n">>, <<"N","U","L","L">>}

\* pd.read_csv(url, nrows=nrows): the first nrows lines; a column whose values
\* are all numbers or missing is a float column, any other an object column.
read_csv(src, nrows) ==
    LET n == Min(nrows, Len(src.rows))
        numeric(j) == \A i \in 1..n :
                         src.rows[i][j] \in NAValues \/ IsFloatText(src.rows[i][j])
        conv(i, j) == IF src.rows[i][j] \in NAValues THEN NaN
                      ELSE IF numeric(j) THEN ParseFloat(src.rows[i][j])
                      ELSE Str(src.rows[i][j])
    IN [cols  |-> src.cols,
        index |-> [i \in 1..n |-> i - 1],
        rows  |-> [i \in 1..n |-> [j \in 1..Len(src.cols) |-> conv(i, j)]]]

\* pd.to_datetime(x, errors="coerce") of one value
to_datetime(c) ==
    CASE c.k = "str" -> ParseTs(c.s)
      [] c.k = "num" -> Ts(0)    \* a number counts nanoseconds from the epoch
      [] c.k = "ts"  -> c
      [] OTHER       -> NaT

\* pd.to_numeric(x, errors="coerce") of one value
to_numeric(c) ==
    CASE c.k \in {"num", "inf", "nan"} -> c
      [] c.k = "str" -> IF IsFloatText(StrStrip(c.s)) THEN ParseFloat(StrStrip(c.s)) ELSE NaN
      [] OTHER       -> NaN

\* astype(str) of one value
astype_str(c) ==
    CASE c.k = "str" -> c.s
      [] c.k = "nan" -> <<"n","a","n">>
      [] c.k \in {"num", "inf"} -> FormatFloat(c)
      [] c.k = "int" -> FormatNat(c.n)
      [] c.k = "ts"  -> FormatTs(c.n)
      [] c.k = "date" -> FormatDate(c.n)
      [] OTHER       -> <<"N","a","T">>

-----------------------------------------------------------------------------
(* load_data *)

\* Mutant: the names are lower-cased but not trimmed.
NormalizeColumns_LowerOnly(t) ==
    [t EXCEPT !.cols = [j \in 1..Len(t.cols) |-> StrLower(t.cols[j])]]
NormalizeColumns(t) ==
    [t EXCEPT !.cols = [j \in 1..Len(t.cols) |-> StrLower(StrStrip(t.cols[j]))]]

Outcome(exc, detail, t) == [exc |-> exc, detail |-> detail, df |-> t]

\* Line 49: df[DATE_COL_RAW] = pd.to_datetime(df[DATE_COL_RAW], errors="coerce")
ParseDates(t) ==
    Assign(t, DATE_COL_RAW, [i \in Rows(t) |-> to_datetime(Cell(t, t.rows[i], DATE_COL_RAW))])

\* Mutant: rows without a timestamp are kept.
DropMissing_CoordsOnly(t) == DropNA(t, {LAT_COL, LON_COL})
\* Line 50
DropMissing(t) == DropNA(t, {DATE_COL_RAW, LAT_COL, LON_COL})

\* Lines 53-54
NumericLat(t) == Assign(t, LAT_COL, [i \in Rows(t) |-> to_numeric(Cell(t, t.rows[i], LAT_COL))])
NumericLon(t) == Assign(t, LON_COL, [i \in Rows(t) |-> to_numeric(Cell(t, t.rows[i], LON_COL))])

\* Line 55
DropCoords(t) == DropNA(t, {LAT_COL, LON_COL})

\* Line 58
RenameDate(t) == Rename(t, DATE_COL_RAW, DATETIME)

\* Lines 59-61
AddDate(t) == Assign(t, DATE, [i \in Rows(t) |-> DateOf(Cell(t, t.rows[i], DATETIME))])
AddHour(t) == Assign(t, HOUR, [i \in Rows(t) |-> HourOf(Cell(t, t.rows[i], DATETIME))])
AddWeekday(t) ==
    Assign(t, WEEKDAY, [i \in Rows(t) |-> DayNameOf(Cell(t, t.rows[i], DATETIME))])

\* Lines 64-67
CleanBase(t) ==
    IF HasCol(t, BASE_COL)
    THEN Assign(t, BASE_COL,
                [i \in Rows(t) |-> Str(StrUpper(StrStrip(astype_str(Cell(t, t.rows[i], BASE_COL)))))])
    ELSE Assign(t, BASE_COL, [i \in Rows(t) |-> Str(UNKNOWN)])

\* Lines 49-69, on a table that has the date/time, lat and lon columns
Canonical(t) ==
    ResetIndex(CleanBase(AddWeekday(AddHour(AddDate(RenameDate(
        DropCoords(NumericLon(NumericLat(DropMissing(ParseDates(t))))))))))) 

\* Lines 44-50: the columns the function needs
Validated(t) ==
    IF ~HasCol(t, DATE_COL_RAW) THEN Outcome("ValueError", t.cols, EmptyTable)
    ELSE IF ~HasCol(t, LAT_COL) \/ ~HasCol(t, LON_COL)
    THEN Outcome("KeyError", SelectSeq(<<LAT_COL, LON_COL>>, LAMBDA c : ~HasCol(t, c)), EmptyTable)
    ELSE Outcome("none", <<>>, Canonical(t))

\* load_data(url, nrows): the table, or the exception it raises
load_data(src, nrows) ==
    IF src.status # "ok" THEN Outcome(src.status, <<>>, EmptyTable)
    ELSE Validated(NormalizeColumns(read_csv(src, nrows)))

-----------------------------------------------------------------------------
(* The script's blocks after the load *)

RECURSIVE SortAsc(_)
SortAsc(S) ==
    IF S = {} THEN <<>>
    ELSE LET m == CHOOSE x \in S : \A y \in S : x <= y IN <<m>> \o SortAsc(S \ {m})

ColumnSet(t, name) == {Cell(t, t.rows[i], name) : i \in 1..Len(t.rows)}

\* Mutant: the upper date bound is exclusive.
FilterDates_Exclusive(t, dates) ==
    IF Len(dates) = 2
    THEN Take(t, {i \in 1..Len(t.rows) : /\ Cell(t, t.rows[i], DATE).n >= dates[1]
                                         /\ Cell(t, t.rows[i], DATE).n < dates[2]})
    ELSE t
\* Lines 144-146
FilterDates(t, dates) ==
    IF Len(dates) = 2
    THEN Take(t, {i \in 1..Len(t.rows) : /\ Cell(t, t.rows[i], DATE).n >= dates[1]
                                         /\ Cell(t, t.rows[i], DATE).n <= dates[2]})
    ELSE t
\* Mutant: the hour mask is inverted.
FilterHours_Inverted(t, hs) ==
    IF hs # {} THEN Take(t, {i \in 1..Len(t.rows) : Cell(t, t.rows[i], HOUR).n \notin hs})
    ELSE t
\* Lines 147-148
FilterHours(t, hs) ==
    IF hs # {} THEN Take(t, {i \in 1..Len(t.rows) : Cell(t, t.rows[i], HOUR).n \in hs})
    ELSE t
\* Lines 149-150
FilterBases(t, bs) ==
    IF bs # {} THEN Take(t, {i \in 1..Len(t.rows) : Cell(t, t.rows[i], BASE_COL).s \in bs})
    ELSE t

\* Lines 143-150: the three filters, one after the other
ApplyFilters(t, dates, hs, bs) == FilterBases(FilterHours(FilterDates(t, dates), hs), bs)

\* Lines 172-178: the four KPI cards
Kpis(f, lo, hi) ==
    [rides  |-> Len(f.rows),
     days   |-> Cardinality(ColumnSet(f, DATE)),
     bases  |-> Cardinality(ColumnSet(f, BASE_COL)),
     window |-> <<lo, hi>>]

\* Order of floats, -inf < every number < +inf
FloatLess(a, b) ==
    CASE a.k = "inf" /\ b.k = "inf" -> a.n < b.n
      [] a.k = "inf" -> a.n < 0
      [] b.k = "inf" -> b.n > 0
      [] OTHER       -> a.n < b.n

\* Mutant: the groups in the order the hours first occur, not sorted.
RECURSIVE FirstSeen(_, _)
FirstSeen(s, seen) ==
    IF s = <<>> THEN <<>>
    ELSE IF Head(s) \in seen THEN FirstSeen(Tail(s), seen)
    ELSE <<Head(s)>> \o FirstSeen(Tail(s), seen \cup {Head(s)})
HourCounts_Unsorted(f) ==
    LET hs == FirstSeen([i \in 1..Len(f.rows) |-> Cell(f, f.rows[i], HOUR).n], {})
    IN [k \in 1..Len(hs) |->
          [hour    |-> hs[k],
           pickups |-> Cardinality({i \in 1..Len(f.rows) : Cell(f, f.rows[i], HOUR).n = hs[k]})]]
\* Lines 187-192: groupby("hour").size(), sorted by hour
HourCounts(f) ==
    LET hs == SortAsc({c.n : c \in ColumnSet(f, HOUR)})
    IN [k \in 1..Len(hs) |->
          [hour    |-> hs[k],
           pickups |-> Cardinality({i \in 1..Len(f.rows) : Cell(f, f.rows[i], HOUR).n = hs[k]})]]

\* Lines 210-212: the rows (lat_q, lon_q, size), in ascending order of the key
Bucket(f, r) == <<Round3(Cell(f, r, LAT_COL)), Round3(Cell(f, r, LON_COL))>>
BucketLess(a, b) == FloatLess(a[1], b[1]) \/ (a[1] = b[1] /\ FloatLess(a[2], b[2]))
RECURSIVE SortBuckets(_)
SortBuckets(S) ==
    IF S = {} THEN <<>>
    ELSE LET m == CHOOSE b \in S : \A c \in S : ~BucketLess(c, b)
         IN <<m>> \o SortBuckets(S \ {m})
GroupBuckets(f) ==
    LET of == [i \in 1..Len(f.rows) |-> Bucket(f, f.rows[i])]
        keys == SortBuckets({of[i] : i \in 1..Len(f.rows)})
    IN [k \in 1..Len(keys) |->
          [lat_q |-> keys[k][1], lon_q |-> keys[k][2],
           size  |-> Cardinality({i \in 1..Len(f.rows) : of[i] = keys[k]})]]

\* Line 213: sort_values("size", ascending=False).  The default sort is
\* quicksort, which is not stable: rows of equal size come in any order.
\* The order among equal sizes is the rotation by shift, forwards or backwards.
SortBySizeDesc(g, shift, dir) ==
    LET n == Len(g)
        rank == [i \in 1..n |-> dir * ((i + shift) % n)]
        before(i, j) == g[i].size > g[j].size \/ (g[i].size = g[j].size /\ rank[i] < rank[j])
        place == [i \in 1..n |-> 1 + Cardinality({j \in 1..n : before(j, i)})]
    IN [k \in 1..n |-> g[CHOOSE i \in 1..n : place[i] = k]]

TopK == 10
\* Mutant: one row too many.
Head10_OneMore(s) == SubSeq(s, 1, Min(TopK + 1, Len(s)))
\* Line 214: head(10)
Head10(s) == SubSeq(s, 1, Min(TopK, Len(s)))

\* np.average of a column: the sum over the count, as a fraction
RECURSIVE SumCells(_)
SumCells(s) == IF s = <<>> THEN 0 ELSE Head(s).n + SumCells(Tail(s))
Average(t, name) ==
    LET col == [i \in 1..Len(t.rows) |-> Cell(t, t.rows[i], name)]
        infs == {col[i].n : i \in {j \in 1..Len(col) : col[j].k = "inf"}}
    IN IF infs = {} THEN [k |-> "num", sum |-> SumCells(col), count |-> Len(col)]
       ELSE IF Cardinality(infs) = 1 THEN [k |-> "inf", sum |-> CHOOSE x \in infs : TRUE, count |-> Len(col)]
       ELSE [k |-> "nan", sum |-> 0, count |-> Len(col)]

\* df[[names]]
Project(t, names) ==
    [t EXCEPT !.cols = names,
              !.rows = [i \in 1..Len(t.rows) |->
                          [j \in 1..Len(names) |-> Cell(t, t.rows[i], names[j])]]]

\* Lines 84-103: the two layers share one copy of the lat/lon columns
get_map_layers(t) == Project(t, <<LAT_COL, LON_COL>>)

\* Line 237: to_csv(index=False): the header line, then a line per row
CsvField(c) ==
    CASE c.k = "nan" -> <<>>
      [] c.k = "nat" -> <<>>
      [] OTHER       -> astype_str(c)
to_csv(t) ==
    <<t.cols>> \o [i \in 1..Len(t.rows) |-> [j \in 1..Len(t.cols) |-> CsvField(t.rows[i][j])]]

TableColumns == <<DATETIME, LAT_COL, LON_COL, BASE_COL, HOUR, WEEKDAY>>

-----------------------------------------------------------------------------
(* Inputs *)

MaxRows == 3        \* lines of the source
MaxTieShift == 2    \* rotations of the order among equal sizes

Pickup(ts, lat, lon, base) == [ts |-> ts, lat |-> lat, lon |-> lon, base |-> base, id |-> <<"7">>]

\* Lines of the dataset, and lines that load_data has to cope with.
GoodLines ==
    { Pickup(<<"2","0","1","4","-","0","9","-","0","1"," ","0","0",":","0","2",":","0","0">>, <<"4","0",".","7","5","2","1">>, <<"-","7","3",".","9","9","1","4">>, <<" ","b","0","2","5","1","2"," ">>),
      Pickup(<<"2","0","1","4","-","0","9","-","0","1"," ","0","5",":","3","0",":","0","0">>, <<"4","0",".","7","5","2","4">>, <<"-","7","3",".","9","9","1","4">>, <<"B","0","2","5","9","8">>),
      Pickup(<<"2","0","1","4","-","0","9","-","0","2"," ","0","5",":","0","0",":","0","0">>, <<"4","0",".","7","5","8","6">>, <<"-","7","3",".","9","7","0","6">>, <<>>) }
BadTimestampLine == Pickup(<<"n","o","t","-","a","-","d","a","t","e">>, <<"4","0",".","7","5","2","1">>, <<"-","7","3",".","9","9","1","4">>, <<"B","0","2","5","9","8">>)
OddLines ==
    { BadTimestampLine,
      Pickup(<<"2","0","1","4","-","0","9","-","0","1"," ","0","0",":","0","2",":","0","0">>, <<"i","n","f">>, <<"-","7","3",".","9","9","1","4">>, <<"B","0","2","5","9","8">>),
      Pickup(<<"2","0","1","4","-","0","9","-","0","2"," ","0","5",":","0","0",":","0","0">>, <<"4","0",".","7","5","8","6">>, <<"a","b","c">>, <<"B","0","2","5","9","8">>) }
Lines == GoodLines \cup OddLines

\* Header lines: the dataset's; one without base and with another column;
\* one without the timestamp column; one without lat.
DatasetHeader ==
    [names |-> << <<"D","a","t","e","/","T","i","m","e">>, <<"L","a","t">>, <<"L","o","n">>, <<"B","a","s","e">> >>, fields |-> <<"ts", "lat", "lon", "base">>]
Headers ==
    { DatasetHeader,
      [names |-> << <<" ","d","a","t","e","/","t","i","m","e">>, <<"L","A","T">>, <<"l","o","n"," ">>, <<"I","d">> >>, fields |-> <<"ts", "lat", "lon", "id">>],
      [names |-> << <<"T","i","m","e">>, <<" ","L","A","T"," ">>, <<"L","o","n">>, <<"B","a","s","e">> >>, fields |-> <<"ts", "lat", "lon", "base">>],
      [names |-> << <<"D","a","t","e","/","T","i","m","e">>, <<"L","o","n">>, <<"B","a","s","e">> >>, fields |-> <<"ts", "lon", "base">>] }

\* Hours offered by the multiselect that the runs pick from (it offers 0..23).
HourSample == {0, 5}

SeqsUpTo(S, n) == UNION {[1..m -> S] : m \in 0..n}

CsvOf(h, ls) ==
    [status |-> "ok", cols |-> h.names,
     rows |-> [i \in 1..Len(ls) |-> [j \in 1..Len(h.fields) |-> ls[i][h.fields[j]]]]]
Unreadable(s) == [status |-> s, cols |-> <<>>, rows |-> <<>>]

Sources(headers, tables) ==
    {CsvOf(h, ls) : h \in headers, ls \in tables}
        \cup {Unreadable("URLError"), Unreadable("FileNotFoundError")}

NoKpis == [rides |-> 0, days |-> 0, bases |-> 0, window |-> <<0, 0>>]
NoPoint == [lat |-> [k |-> "none", sum |-> 0, count |-> 0],
            lon |-> [k |-> "none", sum |-> 0, count |-> 0]]
NoError == [handler |-> "none", exc |-> "none", detail |-> <<>>]

\* The state as the script starts: nothing loaded, nothing rendered.
InitWith(headers, tables, caps) ==
    /\ source \in Sources(headers, tables)
    /\ max_rows \in caps
    /\ pc = "load"
    /\ df = EmptyTable
    /\ error = NoError
    /\ min_date = 0 /\ max_date = 0
    /\ chosen_dates = <<>> /\ hours = {} /\ base_sel = {}
    /\ filtered = EmptyTable
    /\ kpis = NoKpis
    /\ hour_counts = <<>> /\ quantized = <<>>
    /\ midpoint = NoPoint /\ layers = EmptyTable
    /\ table = EmptyTable /\ csv = <<>>
    /\ rendered = {}

Init == InitWith(Headers, SeqsUpTo(Lines, MaxRows), {1, MaxRows})

-----------------------------------------------------------------------------
(* One run of the script *)

\* Lines 114-116: load_data returns
LoadOk ==
    /\ pc = "load"
    /\ LET out == load_data(source, max_rows)
       IN out.exc = "none" /\ df' = out.df
    /\ pc' = "sidebar"
    /\ UNCHANGED <<source, max_rows, error, min_date, max_date, chosen_dates, hours,
                   base_sel, filtered, kpis, hour_counts, quantized, midpoint, layers,
                   table, csv, rendered>>

\* Mutant: the handler shows the error and the script goes on.
Stop_GoesOn(handler, out) ==
    /\ error' = [handler |-> handler, exc |-> out.exc, detail |-> out.detail]
    /\ rendered' = rendered \cup {"error"}
    /\ pc' = "sidebar"
    /\ UNCHANGED <<source, max_rows, df, min_date, max_date, chosen_dates, hours,
                   base_sel, filtered, kpis, hour_counts, quantized, midpoint, layers,
                   table, csv>>

\* What a handler of the try block does: st.error, then st.stop
Stop(handler, out) ==
    /\ error' = [handler |-> handler, exc |-> out.exc, detail |-> out.detail]
    /\ rendered' = rendered \cup {"error"}
    /\ pc' = "stopped"
    /\ UNCHANGED <<source, max_rows, df, min_date, max_date, chosen_dates, hours,
                   base_sel, filtered, kpis, hour_counts, quantized, midpoint, layers,
                   table, csv>>

\* Lines 117-119: except URLError
LoadURLError ==
    /\ pc = "load"
    /\ LET out == load_data(source, max_rows)
       IN out.exc = "URLError" /\ Stop("URLError", out)

\* Lines 120-122: except Exception
LoadException ==
    /\ pc = "load"
    /\ LET out == load_data(source, max_rows)
       IN out.exc \notin {"none", "URLError"} /\ Stop("Exception", out)

DateTuples(lo, hi) ==
    {<<>>} \cup {<<d>> : d \in lo..hi}
           \cup {ab \in (lo..hi) \X (lo..hi) : ab[1] <= ab[2]}

\* Lines 125-178: the widgets that depend on the data, the filters, the KPIs
Filters ==
    /\ pc = "sidebar"
    /\ df.rows # <<>>
    /\ LET days == {c.n : c \in ColumnSet(df, DATE)}
           lo == CHOOSE d \in days : \A e \in days : d <= e
           hi == CHOOSE d \in days : \A e \in days : e <= d
       IN /\ min_date' = lo
          /\ max_date' = hi
          /\ chosen_dates' \in DateTuples(lo, hi)
          /\ hours' \in SUBSET HourSample
          /\ base_sel' \in SUBSET {c.s : c \in ColumnSet(df, BASE_COL)}
          /\ filtered' = ApplyFilters(df, chosen_dates', hours', base_sel')
          /\ kpis' = Kpis(filtered', lo, hi)
    /\ rendered' = rendered \cup {"title", "kpis"}
    /\ pc' = "overview"
    /\ UNCHANGED <<source, max_rows, df, error, hour_counts, quantized, midpoint,
                   layers, table, csv>>

\* Line 125 on a table without rows: min() and max() are NaT, which the date
\* widget cannot show; the exception ends the run.
NoWindow ==
    /\ pc = "sidebar"
    /\ df.rows = <<>>
    /\ rendered' = rendered \cup {"exception"}
    /\ pc' = "crashed"
    /\ UNCHANGED <<source, max_rows, df, error, min_date, max_date, chosen_dates, hours,
                   base_sel, filtered, kpis, hour_counts, quantized, midpoint, layers,
                   table, csv>>

\* Lines 185-216: the chart of pickups per hour and the ten densest buckets
Overview ==
    /\ pc = "overview"
    /\ hour_counts' = HourCounts(filtered)
    /\ LET g == GroupBuckets(filtered)
       IN \E shift \in 0..MaxTieShift, dir \in {1, -1} :
             quantized' = Head10(SortBySizeDesc(g, shift, dir))
    /\ rendered' = rendered \cup {"chart", "top"}
    /\ pc' = "map"
    /\ UNCHANGED <<source, max_rows, df, error, min_date, max_date, chosen_dates, hours,
                   base_sel, filtered, kpis, midpoint, layers, table, csv>>

\* Mutant: the map is drawn without the check for an empty view.
MapEmpty_Unguarded ==
    /\ pc = "map"
    /\ filtered.rows = <<>>
    /\ midpoint' = [lat |-> Average(filtered, LAT_COL), lon |-> Average(filtered, LON_COL)]
    /\ layers' = get_map_layers(filtered)
    /\ rendered' = rendered \cup {"map"}
    /\ pc' = "data"
    /\ UNCHANGED <<source, max_rows, df, error, min_date, max_date, chosen_dates, hours,
                   base_sel, filtered, kpis, hour_counts, quantized, table, csv>>

\* Lines 218-221: nothing to put on the map
MapEmpty ==
    /\ pc = "map"
    /\ filtered.rows = <<>>
    /\ rendered' = rendered \cup {"info"}
    /\ pc' = "data"
    /\ UNCHANGED <<source, max_rows, df, error, min_date, max_date, chosen_dates, hours,
                   base_sel, filtered, kpis, hour_counts, quantized, midpoint, layers,
                   table, csv>>

\* Lines 222-227: the map, centred on the mean position
Map ==
    /\ pc = "map"
    /\ filtered.rows # <<>>
    /\ midpoint' = [lat |-> Average(filtered, LAT_COL), lon |-> Average(filtered, LON_COL)]
    /\ layers' = get_map_layers(filtered)
    /\ rendered' = rendered \cup {"map"}
    /\ pc' = "data"
    /\ UNCHANGED <<source, max_rows, df, error, min_date, max_date, chosen_dates, hours,
                   base_sel, filtered, kpis, hour_counts, quantized, table, csv>>

\* Lines 229-255: the data table, the download, the about tab
Data ==
    /\ pc = "data"
    /\ table' = Project(filtered, TableColumns)
    /\ csv' = to_csv(filtered)
    /\ rendered' = rendered \cup {"table", "download", "about"}
    /\ pc' = "done"
    /\ UNCHANGED <<source, max_rows, df, error, min_date, max_date, chosen_dates, hours,
                   base_sel, filtered, kpis, hour_counts, quantized, midpoint, layers>>

Next ==
    \/ LoadOk
    \/ LoadURLError
    \/ LoadException
    \/ Filters
    \/ NoWindow
    \/ Overview
    \/ MapEmpty
    \/ Map
    \/ Data

Spec == Init /\ [][Next]_vars

-----------------------------------------------------------------------------
(* Properties of load_data *)

Loaded == pc \notin {"load", "stopped"}
NamesOf(src) == [j \in 1..Len(src.cols) |-> StrLower(StrStrip(src.cols[j]))]
IsTrimmed(s) == s = <<>> \/ (s[1] \notin Whitespace /\ s[Len(s)] \notin Whitespace)
IsUpperCase(s) == \A i \in 1..Len(s) : IndexOf(LowerChars, s[i]) = 0

\* C1: every row of the table load_data returns has a non-null datetime, a
\* finite lat and a finite lon, an hour in 0..23 and a trimmed upper-case base.
C1_RowsAreCanonical ==
    Loaded =>
        \A i \in 1..Len(df.rows) :
            /\ Cell(df, df.rows[i], DATETIME).k = "ts"
            /\ Cell(df, df.rows[i], LAT_COL).k = "num"
            /\ Cell(df, df.rows[i], LON_COL).k = "num"
            /\ Cell(df, df.rows[i], HOUR).k = "int"
            /\ Cell(df, df.rows[i], HOUR).n \in 0..23
            /\ Cell(df, df.rows[i], BASE_COL).k = "str"
            /\ IsTrimmed(Cell(df, df.rows[i], BASE_COL).s)
            /\ IsUpperCase(Cell(df, df.rows[i], BASE_COL).s)

\* C2: when the source can be read and none of its column names, trimmed and
\* lower-cased, is 'date/time', the load returns no table and the run stops on
\* a ValueError whose message lists every column of the source, in order, by
\* its trimmed lower-cased name.
C2_MissingTimestampColumn ==
    (pc # "load" /\ source.status = "ok"
        /\ \A j \in 1..Len(source.cols) : NamesOf(source)[j] # DATE_COL_RAW)
    => /\ pc = "stopped"
       /\ df = EmptyTable
       /\ error.exc = "ValueError"
       /\ error.detail = NamesOf(source)
C2_Witness ==
    /\ pc = "stopped" /\ error.exc = "ValueError"
    /\ Len(error.detail) = 4 /\ error.detail[2] = LAT_COL /\ source.rows # <<>>

\* C3: when load_data raises, whatever the exception, the error message is
\* shown and the run ends there: nothing is filtered and no KPI, chart, bucket
\* table, map, data table or download is produced, in that step or later (no
\* step leaves a stopped run).
C3_LoadFailureHalts ==
    [][ /\ (pc = "load" /\ load_data(source, max_rows).exc # "none")
            => /\ pc' = "stopped"
               /\ rendered' = {"error"}
               /\ error' # NoError
               /\ df' = EmptyTable /\ filtered' = EmptyTable /\ kpis' = NoKpis
               /\ hour_counts' = <<>> /\ quantized' = <<>>
               /\ midpoint' = NoPoint /\ layers' = EmptyTable
               /\ table' = EmptyTable /\ csv' = <<>>
        /\ pc # "stopped" ]_vars
C3_Witness == pc = "stopped" /\ error.handler = "Exception" /\ error.exc = "KeyError"

\* The lines read_csv reads, and what makes a line valid.
LinesRead == SubSeq(source.rows, 1, Min(max_rows, Len(source.rows)))
Field(line, name) == line[IndexOf(NamesOf(source), name)]
HasAllColumns == \A c \in {DATE_COL_RAW, LAT_COL, LON_COL} : IndexOf(NamesOf(source), c) > 0
CoordsValid(line) == IsFiniteText(Field(line, LAT_COL)) /\ IsFiniteText(Field(line, LON_COL))
ValidLine(line) == ParseTs(Field(line, DATE_COL_RAW)).k = "ts" /\ CoordsValid(line)
BadTimestamp(line) == ParseTs(Field(line, DATE_COL_RAW)).k = "nat" /\ CoordsValid(line)
Without(s, i) == SubSeq(s, 1, i - 1) \o SubSeq(s, i + 1, Len(s))
OneBadTimestamp(i) ==
    /\ BadTimestamp(LinesRead[i])
    /\ \A j \in (1..Len(LinesRead)) \ {i} : ValidLine(LinesRead[j])

\* C4: when the lines read are valid lines and one line whose timestamp does
\* not parse (its other fields valid), load_data raises nothing and returns
\* the table it returns for the same lines without that one: the line is
\* dropped, the table has one row less than lines were read, the other rows
\* keep their order.
C4_BadTimestampDropped ==
    (pc \in {"sidebar", "stopped"} /\ source.status = "ok" /\ HasAllColumns)
    => \A i \in 1..Len(LinesRead) :
          OneBadTimestamp(i)
          => /\ pc = "sidebar"
             /\ error = NoError
             /\ df = load_data([source EXCEPT !.rows = Without(LinesRead, i)], max_rows).df
             /\ Len(df.rows) = Len(LinesRead) - 1
             /\ \A k \in 1..Len(df.rows) :
                   Cell(df, df.rows[k], DATETIME)
                     = ParseTs(Field(Without(LinesRead, i)[k], DATE_COL_RAW))
C4_Witness ==
    /\ pc = "sidebar" /\ HasAllColumns /\ Len(LinesRead) = 3
    /\ OneBadTimestamp(2)
    /\ Len(df.rows) = 2
    /\ Cell(df, df.rows[1], DATETIME) # Cell(df, df.rows[2], DATETIME)

-----------------------------------------------------------------------------
(* Properties of the filters *)

Filtered == pc \in {"overview", "map", "data", "done"}

InDates(r) ==
    Len(chosen_dates) # 2
        \/ (chosen_dates[1] <= Cell(df, r, DATE).n /\ Cell(df, r, DATE).n <= chosen_dates[2])
InHours(r) == hours = {} \/ Cell(df, r, HOUR).n \in hours
InBases(r) == base_sel = {} \/ Cell(df, r, BASE_COL).s \in base_sel
Selected(r) == InDates(r) /\ InHours(r) /\ InBases(r)
SelectedLabel(ix) == Selected(df.rows[ix + 1])

\* C5: the filtered view is exactly the rows of the loaded table, in its
\* order, that are within the date bounds (when both are given, ends
\* included), whose hour is selected (when any is) and whose base is selected
\* (when any is); with the whole date window and no hour and no base selected
\* it is the loaded table.
C5_FilterIsConjunction ==
    Filtered =>
        /\ filtered.cols = df.cols
        /\ filtered.rows = SelectSeq(df.rows, Selected)
        /\ filtered.index = SelectSeq(df.index, SelectedLabel)
        /\ (chosen_dates = <<min_date, max_date>> /\ hours = {} /\ base_sel = {})
              => filtered = df
C5_Witness ==
    /\ pc = "overview"
    /\ Len(chosen_dates) = 2 /\ chosen_dates[1] = chosen_dates[2] /\ min_date < max_date
    /\ hours # {} /\ base_sel # {}
    /\ filtered.rows # <<>> /\ Len(filtered.rows) < Len(df.rows)

Count(dates, hs, bs) == Len(ApplyFilters(df, dates, hs, bs).rows)
SubRanges ==
    IF Len(chosen_dates) = 2
    THEN {ab \in (chosen_dates[1]..chosen_dates[2]) \X (chosen_dates[1]..chosen_dates[2]) :
            ab[1] <= ab[2]}
    ELSE {}

\* C6 as stated: a sub-range of the date range, or any subset of the selected
\* hours or of the selected bases, never gives more rows.
C6_AnySubsetNarrows ==
    pc = "overview" =>
        /\ \A ab \in SubRanges : Count(ab, hours, base_sel) <= Len(filtered.rows)
        /\ \A hs \in SUBSET hours : Count(chosen_dates, hs, base_sel) <= Len(filtered.rows)
        /\ \A bs \in SUBSET base_sel : Count(chosen_dates, hours, bs) <= Len(filtered.rows)

\* C6, amended: a sub-range of the date range, or a non-empty subset of the
\* selected hours or of the selected bases, never gives more rows (the empty
\* selection is no restriction, not the narrowest one).
C6_NonEmptySubsetNarrows ==
    pc = "overview" =>
        /\ \A ab \in SubRanges : Count(ab, hours, base_sel) <= Len(filtered.rows)
        /\ \A hs \in (SUBSET hours) \ {{}} :
              Count(chosen_dates, hs, base_sel) <= Len(filtered.rows)
        /\ \A bs \in (SUBSET base_sel) \ {{}} :
              Count(chosen_dates, hours, bs) <= Len(filtered.rows)
C6_Witness ==
    /\ pc = "overview"
    /\ \E h \in hours : /\ hours # {h}
                        /\ Count(chosen_dates, {h}, base_sel) < Len(filtered.rows)
                        /\ Count(chosen_dates, {h}, base_sel) > 0
    /\ \E ab \in SubRanges : Count(ab, hours, base_sel) < Len(filtered.rows)

-----------------------------------------------------------------------------
(* Properties of the views *)

Viewed == pc \in {"map", "data", "done"}
RowsAtHour(h) == {i \in 1..Len(filtered.rows) : Cell(filtered, filtered.rows[i], HOUR).n = h}
RECURSIVE SumPickups(_)
SumPickups(s) == IF s = <<>> THEN 0 ELSE Head(s).pickups + SumPickups(Tail(s))

\* C7: hour_counts has one entry per hour that occurs in the filtered view, in
\* strictly ascending order of the hour, each with the number of rows of that
\* hour; the counts add up to the number of rows.
C7_HourCounts ==
    Viewed =>
        /\ \A k \in 1..(Len(hour_counts) - 1) : hour_counts[k].hour < hour_counts[k + 1].hour
        /\ {hour_counts[k].hour : k \in 1..Len(hour_counts)}
              = {c.n : c \in ColumnSet(filtered, HOUR)}
        /\ \A k \in 1..Len(hour_counts) :
              hour_counts[k].pickups = Cardinality(RowsAtHour(hour_counts[k].hour))
        /\ SumPickups(hour_counts) = Len(filtered.rows)
C7_Witness ==
    /\ pc = "map" /\ Len(hour_counts) = 2
    /\ hour_counts[2].pickups = 2
    /\ Cell(filtered, filtered.rows[1], HOUR).n = hour_counts[2].hour

BucketsOf(f) == {Bucket(f, f.rows[i]) : i \in 1..Len(f.rows)}
RowsInBucket(b) == {i \in 1..Len(filtered.rows) : Bucket(filtered, filtered.rows[i]) = b}
Entry(k) == <<quantized[k].lat_q, quantized[k].lon_q>>

\* C8: the top-location table has at most ten entries, each a different
\* bucket (lat and lon rounded to three decimals) with the number of rows of
\* the filtered view in it, a positive number; the sizes do not increase down
\* the table, and no bucket left out is larger than one that is in.
C8_TopLocations ==
    Viewed =>
        /\ Len(quantized) <= 10
        /\ \A k \in 1..Len(quantized) :
              /\ Entry(k) \in BucketsOf(filtered)
              /\ quantized[k].size = Cardinality(RowsInBucket(Entry(k)))
              /\ quantized[k].size > 0
        /\ \A j, k \in 1..Len(quantized) :
              /\ j < k => quantized[j].size >= quantized[k].size
              /\ j # k => Entry(j) # Entry(k)
        /\ \A b \in BucketsOf(filtered) \ {Entry(k) : k \in 1..Len(quantized)} :
              \A k \in 1..Len(quantized) : Cardinality(RowsInBucket(b)) <= quantized[k].size
C8_Witness ==
    /\ pc = "map" /\ Len(quantized) = 10
    /\ Cardinality(BucketsOf(filtered)) > 10
    /\ quantized[1].size > quantized[2].size
    /\ FloatLess(quantized[2].lat_q, quantized[1].lat_q)

\* C9: the download has a header line and the columns datetime, lat, lon,
\* base, hour, weekday, no other, and a line for every row of the filtered view.
C9_ExportColumns ==
    pc = "done" =>
        /\ Len(csv) = Len(filtered.rows) + 1
        /\ csv[1] = TableColumns
        /\ \A i \in 1..Len(csv) : Len(csv[i]) = Len(TableColumns)

\* C10: when no row of a loaded table passes the filters, the run goes on to
\* its end without an exception: hour_counts and the top-location table are
\* empty, the map branch is skipped so that no centre is computed, and the
\* download is the header line alone.
C10_EmptyView ==
    (Filtered /\ filtered.rows = <<>>) =>
        /\ df.rows # <<>>
        /\ Viewed => hour_counts = <<>> /\ quantized = <<>>
        /\ midpoint = NoPoint /\ layers = EmptyTable /\ "map" \notin rendered
        /\ pc \in {"data", "done"} => "info" \in rendered
        /\ pc = "done" => csv = <<filtered.cols>> /\ table.rows = <<>>
        /\ "exception" \notin rendered /\ "error" \notin rendered
        /\ pc # "done" => ENABLED Next
C10_Witness ==
    /\ pc = "done" /\ filtered.rows = <<>> /\ Len(df.rows) = MaxRows
    /\ Len(csv) = 1 /\ "download" \in rendered

-----------------------------------------------------------------------------
(* Runs over longer tables: more than ten buckets *)

MaxMoreBuckets == 2   \* buckets beyond the ten of the table
MaxRepeats == 2       \* lines that fall into a bucket already there

\* A line in bucket i (40.7ii, -73.991), off ten-thousandths into the bucket
BucketLine(i, off) ==
    Pickup(<<"2","0","1","4","-","0","9","-","0","1"," ","0","5",":","3","0",":","0","0">>,
           <<"4","0",".","7">> \o ZeroPad(FormatNat(i), 2) \o FormatNat(off),
           <<"-","7","3",".","9","9","1","4">>, <<"B","0","2","5","9","8">>)
Distinct(n) == [i \in 1..n |-> BucketLine(i, 0)]
Repeats == {BucketLine(1, 4), BucketLine(TopK + 1, 4)}
LongTables ==
    {<<>>} \cup {Distinct(n) \o rs : n \in (TopK - 1)..(TopK + MaxMoreBuckets),
                                     rs \in SeqsUpTo(Repeats, MaxRepeats)}

InitTop == InitWith({DatasetHeader}, LongTables, {TopK + MaxMoreBuckets + MaxRepeats})
SpecTop == InitTop /\ [][Next]_vars

=============================================================================
